---- MODULE Spec2Model ----
(***************************************************************************)
(* SymPhi-Engine (package gdk9): symmetry classification, energy and       *)
(* vector model, the registered word transformations, the conservation     *)
(* engine (read / transform / transform_sequence) and the JSON-lines       *)
(* ledger.                                                                 *)
(*                                                                         *)
(* Words are sequences of one-character strings.  Python floats are IEEE   *)
(* binary64; they are modelled exactly, as integers counting units of      *)
(* 2^-58 held in three limbs of 22 bits, and every float addition rounds   *)
(* to 53 significant bits, ties to even, as the hardware does.  Every      *)
(* per-character value of the letters A..Y is a multiple of 2^-58; the     *)
(* letter Z is outside the model (sin(pi) in its vector is about 1.2e-16). *)
(***************************************************************************)
EXTENDS Integers, Sequences, FiniteSets, TLC

(***************************************************************************)
(* Bounds of the model.                                                    *)
(***************************************************************************)
MaxLen == 3
MaxSteps == 2
MaxLines == 2

(***************************************************************************)
(* IEEE binary64 arithmetic on values v = (l2*B^2 + l1*B + l0) * 2^-58,    *)
(* 0 <= l1, l0 < B, l2 any integer (floor representation of the sign).     *)
(***************************************************************************)
LimbBase == 2^22

\* F applied to the value of v, v evaluated once (a local variable of the code)
Let(v, F(_)) == CHOOSE r \in {F(x) : x \in {v}} : TRUE

FZero == <<0, 0, 0>>

FromInt(n) == <<n * 2^14, 0, 0>>

Norm(a2, a1, a0) ==
    LET b1 == a1 + (a0 \div LimbBase)
    IN  <<a2 + (b1 \div LimbBase), b1 % LimbBase, a0 % LimbBase>>

FNeg(x) == Norm(-x[1], -x[2], -x[3])

FIsNeg(x) == x[1] < 0

FAbs(x) == IF FIsNeg(x) THEN FNeg(x) ELSE x

\* x <= y on exact values
FLeq(x, y) ==
    \/ x[1] < y[1]
    \/ x[1] = y[1] /\ x[2] < y[2]
    \/ x[1] = y[1] /\ x[2] = y[2] /\ x[3] <= y[3]

RECURSIVE BitLenRec(_)
BitLenRec(n) == IF n = 0 THEN 0 ELSE 1 + BitLenRec(n \div 2)

BitLenTable == [n \in 0..(2^13 - 1) |-> BitLenRec(n)]

\* the number of bits of n, 0 <= n < 2^26
BitLen(n) == IF n < 2^13 THEN BitLenTable[n] ELSE 13 + BitLenTable[n \div 2^13]

MagBits(m) ==
    IF m[1] > 0 THEN 44 + BitLen(m[1])
    ELSE IF m[2] > 0 THEN 22 + BitLen(m[2])
    ELSE BitLen(m[3])

\* round a magnitude to 53 significant bits, ties to even
RoundMag(m) ==
    LET n == MagBits(m)
    IN  IF n <= 53 THEN m
        ELSE LET P    == 2^(n - 53)
                 q    == m[3] \div P
                 r    == m[3] % P
                 half == P \div 2
                 up   == r > half \/ (r = half /\ q % 2 = 1)
             IN  Norm(m[1], m[2], (q + (IF up THEN 1 ELSE 0)) * P)

\* float addition: the exact sum, rounded
FRound(s) == IF FIsNeg(s) THEN FNeg(RoundMag(FNeg(s))) ELSE RoundMag(s)

FAdd(x, y) ==
    Let(<<x, y>>, LAMBDA p :
        Let(Norm(p[1][1] + p[2][1], p[1][2] + p[2][2], p[1][3] + p[2][3]), FRound))

FSub(x, y) == FAdd(x, FNeg(y))

\* one more decimal digit of the fraction st[1..3] (units of 2^-58), st[4] the digits so far
DecStep(st) ==
    LET t == Norm(st[1] * 10, st[2] * 10, st[3] * 10)
    IN  <<t[1] % 2^14, t[2], t[3], st[4] * 10 + (t[1] \div 2^14)>>

RECURSIVE DecDigits(_, _)
DecDigits(st, k) ==
    IF k = 0 THEN st ELSE Let(DecStep(st), LAMBDA n : DecDigits(n, k - 1))

\* format(x, '.8f'): the exact value rounded to 8 decimals, ties to even, as
\* <<negative, integer part, the 8 fraction digits as a number>>
Fmt8Mag(neg, m) ==
    Let(DecDigits(<<m[1] % 2^14, m[2], m[3], 0>>, 8), LAMBDA d :
        LET ip   == m[1] \div 2^14
            rest == <<d[1], d[2], d[3]>>
            half == <<2^13, 0, 0>>
            up   == (rest # half /\ FLeq(half, rest)) \/ (rest = half /\ d[4] % 2 = 1)
            fr   == d[4] + (IF up THEN 1 ELSE 0)
        IN  IF fr = 10^8 THEN <<neg, ip + 1, 0>> ELSE <<neg, ip, fr>>)

Fmt8(x) == Let(x, LAMBDA v : Fmt8Mag(FIsNeg(v), FAbs(v)))

(***************************************************************************)
(* Characters.  gdk9_framework.py: the symmetry sets, get_symmetry_type,   *)
(* energy, vectorize, classify_word, symmetry_counts, word_energy.         *)
(***************************************************************************)
UpperLetters == <<"A","B","C","D","E","F","G","H","I","J","K","L","M",
                  "N","O","P","Q","R","S","T","U","V","W","X","Y">>

LowerLetters == <<"a","b","c","d","e","f","g","h","i","j","k","l","m",
                  "n","o","p","q","r","s","t","u","v","w","x","y">>

Letters == {UpperLetters[i] : i \in 1..25} \cup {LowerLetters[i] : i \in 1..25}

\* str.isalpha on one character
IsAlpha(c) == c \in Letters

PosTable ==
    [c \in Letters |-> CHOOSE i \in 1..25 : UpperLetters[i] = c \/ LowerLetters[i] = c]

\* ord(char.upper()) - ord('A') + 1
Pos(c) == PosTable[c]

\* str.upper on one alphabetic character
Upper(c) == UpperLetters[Pos(c)]

idemp_upper == {"A","H","I","M","O","T","U","V","W","X","Y"}
idemp_lower == {"a","m","o","t","u","v","w","x","y"}
biphasic_upper == {"B","C","D","E","K"}
biphasic_lower == {"b","c","d","e","k"}
invol_upper == {"N","S","Z"}
invol_lower == {"n","s","z"}
asym_upper == {"F","G","J","L","P","Q","R"}
asym_lower == {"f","g","j","l","p","q","r"}

SYMMETRY_ORDER == <<"idempotent", "biphasic", "involutive", "asymmetric">>

\* None is the string "None"
get_symmetry_type(c) ==
    IF ~IsAlpha(c) THEN "None"
    ELSE LET upper == Upper(c)
         IN  IF upper \in idemp_upper THEN "idempotent"
             ELSE IF upper \in biphasic_upper THEN "biphasic"
             ELSE IF upper \in invol_upper THEN "involutive"
             ELSE IF upper \in asym_upper THEN "asymmetric"
             ELSE IF upper \in idemp_lower THEN "idempotent"
             ELSE IF upper \in biphasic_lower THEN "biphasic"
             ELSE IF upper \in invol_lower THEN "involutive"
             ELSE IF upper \in asym_lower THEN "asymmetric"
             ELSE "None"

\* math.sin(pos) for the biphasic positions 2, 3, 4, 5, 11
SinPos(pos) ==
    CASE pos = 2  -> <<14897, 3896680, 3573952>>
      [] pos = 3  -> <<2312, 462262, 3582680>>
      [] pos = 4  -> <<-12400, 2298129, 3942976>>
      [] pos = 5  -> <<-15712, 4130063, 2939296>>
      [] pos = 11 -> <<-16384, 673000, 2982560>>

\* 1.0 / pos for the involutive positions 14 and 19
Recip(pos) ==
    CASE pos = 14 -> <<1170, 1198372, 2396744>>
      [] pos = 19 -> <<862, 1324517, 220752>>

energy(c) ==
    IF ~IsAlpha(c) THEN FZero
    ELSE LET pos == Pos(c)
             sym == get_symmetry_type(c)
         IN  IF sym = "idempotent" THEN FromInt(pos)
             ELSE IF sym = "biphasic" THEN SinPos(pos)
             ELSE IF sym = "involutive" THEN Recip(pos)
             ELSE IF sym = "asymmetric" THEN FromInt(pos + 1)
             ELSE FZero

\* sum(energy(c) for c in word): left to right, from 0
RECURSIVE SumEnergy(_, _, _)
SumEnergy(word, i, acc) ==
    IF i > Len(word) THEN acc
    ELSE Let(FAdd(acc, energy(word[i])), LAMBDA a : SumEnergy(word, i + 1, a))

word_energy(word) == SumEnergy(word, 1, FZero)

\* math.sqrt(abs(energy(char))) by position 1..25
SqrtAbsEnergy == <<
    <<16384, 0, 0>>,
    <<15623, 1280643, 2129088>>,
    <<6154, 3372709, 2776272>>,
    <<14253, 678878, 2733280>>,
    <<16043, 4107894, 3936320>>,
    <<43347, 4150181, 3962112>>,
    <<46340, 3984638, 1959552>>,
    <<46340, 3984638, 1959552>>,
    <<49152, 0, 0>>,
    <<54339, 2435066, 3643904>>,
    <<16383, 3857802, 3441728>>,
    <<59073, 1476802, 2947456>>,
    <<59073, 1476802, 2947456>>,
    <<4378, 3389784, 148128>>,
    <<63454, 4022942, 2583808>>,
    <<67552, 4037311, 2950912>>,
    <<69511, 1782653, 2939136>>,
    <<71416, 840081, 915712>>,
    <<3758, 3134754, 2476472>>,
    <<73271, 1994335, 3450880>>,
    <<75080, 3859540, 2000128>>,
    <<76847, 3237201, 1484544>>,
    <<78574, 3790300, 267776>>,
    <<80264, 3690532, 2174464>>,
    <<81920, 0, 0>> >>

\* math.sin(pos * math.pi / 26) by position 1..25
SinTheta == <<
    <<1974, 3661498, 2685792>>,
    <<3920, 3975544, 2387440>>,
    <<5809, 3550349, 2480656>>,
    <<7614, 102553, 3950512>>,
    <<9307, 724819, 2237216>>,
    <<10864, 2523430, 389248>>,
    <<12263, 2516993, 2474368>>,
    <<13483, 3219794, 1604160>>,
    <<14507, 1306627, 2628896>>,
    <<15319, 1283961, 10464>>,
    <<15907, 3819906, 2596864>>,
    <<16264, 2274123, 847136>>,
    <<16384, 0, 0>>,
    <<16264, 2274123, 847136>>,
    <<15907, 3819906, 2596896>>,
    <<15319, 1283961, 10464>>,
    <<14507, 1306627, 2628896>>,
    <<13483, 3219794, 1604192>>,
    <<12263, 2516993, 2474432>>,
    <<10864, 2523430, 389248>>,
    <<9307, 724819, 2237216>>,
    <<7614, 102553, 3950672>>,
    <<5809, 3550349, 2480720>>,
    <<3920, 3975544, 2387424>>,
    <<1974, 3661498, 2685800>> >>

\* the index of the class in SYMMETRY_ORDER plus one, 0 if there is none
TypeId(sym) ==
    IF \E i \in 1..4 : SYMMETRY_ORDER[i] = sym
    THEN CHOOSE i \in 1..4 : SYMMETRY_ORDER[i] = sym
    ELSE 0

ZeroVector == <<FZero, FZero, FZero, FZero>>

vectorize(c) ==
    IF ~IsAlpha(c) THEN ZeroVector
    ELSE LET pos == Pos(c)
         IN  <<FromInt(pos), FromInt(TypeId(get_symmetry_type(c))),
               SqrtAbsEnergy[pos], SinTheta[pos]>>

VAdd(u, v) == <<FAdd(u[1], v[1]), FAdd(u[2], v[2]), FAdd(u[3], v[3]), FAdd(u[4], v[4])>>

classify_word(word) == [i \in 1..Len(word) |-> get_symmetry_type(word[i])]

CountClass(word, cls) ==
    Cardinality({i \in 1..Len(word) : get_symmetry_type(word[i]) = cls})

symmetry_counts(word) ==
    [idempotent |-> CountClass(word, "idempotent"),
     biphasic   |-> CountClass(word, "biphasic"),
     involutive |-> CountClass(word, "involutive"),
     asymmetric |-> CountClass(word, "asymmetric"),
     unknown    |-> CountClass(word, "None")]

\* ''.join(ch for ch in word if ch.isalpha())
normalize_word(word) == SelectSeq(word, IsAlpha)

(***************************************************************************)
(* Transformations.  src/gdk9/transformations.py.                          *)
(***************************************************************************)
\* a slice bound of Python, for a sequence of n items
SliceIdx(i, n) ==
    IF i < 0 THEN (IF i + n < 0 THEN 0 ELSE i + n)
    ELSE (IF i > n THEN n ELSE i)

\* word[lo:hi]
PySlice(word, lo, hi) ==
    SubSeq(word, SliceIdx(lo, Len(word)) + 1, SliceIdx(hi, Len(word)))

\* word[start::2], start 0 or 1
StepSlice(word, start) ==
    [i \in 1..((Len(word) - start + 1) \div 2) |-> word[start + 2 * i - 1]]

mirror(word) == [i \in 1..Len(word) |-> word[Len(word) + 1 - i]]

\* for idx in range(0, len(chars) - 1, 2): swap chars[idx], chars[idx + 1]
RECURSIVE PairLoop(_, _)
PairLoop(chars, idx) ==
    IF idx >= Len(chars) - 1 THEN chars
    ELSE PairLoop([chars EXCEPT ![idx + 1] = chars[idx + 2],
                                ![idx + 2] = chars[idx + 1]], idx + 2)

pairwise_rotate(word) == PairLoop(word, 0)

\* word[1::2] written twice
InterleaveOddTwice(word) == StepSlice(word, 1) \o StepSlice(word, 1)

interleave(word) ==
    LET even == StepSlice(word, 0)
        odd  == StepSlice(word, 1)
    IN  odd \o even

\* the strings a sort key can start with, in Python's string order
KeyStrings == <<"asymmetric", "biphasic", "idempotent", "involutive", "zz">>

StrRank(s) == CHOOSE i \in 1..5 : KeyStrings[i] = s

\* ties broken by the index, latest first
SortKeyLatestFirst(item) == <<IF item[1] = "None" THEN "zz" ELSE item[1], 0 - item[2]>>

\* key = ((item[0] or 'zz'), item[1]) of an item <<class, index, ch>>
SortKey(item) == <<IF item[1] = "None" THEN "zz" ELSE item[1], item[2]>>

KeyLess(a, b) ==
    \/ StrRank(a[1]) < StrRank(b[1])
    \/ a[1] = b[1] /\ a[2] < b[2]

\* list.sort(key=...): insertion keeps equal keys in their order
RECURSIVE InsertSorted(_, _)
InsertSorted(sorted, item) ==
    IF sorted = <<>> THEN <<item>>
    ELSE IF KeyLess(SortKey(item), SortKey(Head(sorted)))
         THEN <<item>> \o sorted
         ELSE <<Head(sorted)>> \o InsertSorted(Tail(sorted), item)

RECURSIVE SortItems(_, _, _)
SortItems(items, i, acc) ==
    IF i > Len(items) THEN acc
    ELSE Let(InsertSorted(acc, items[i]), LAMBDA a : SortItems(items, i + 1, a))

symmetry_stabilize(word) ==
    LET classes  == classify_word(word)
        sortable == [i \in 1..Len(word) |-> <<classes[i], i - 1, word[i]>>]
        sorted   == SortItems(sortable, 1, <<>>)
    IN  [i \in 1..Len(word) |-> sorted[i][3]]

\* the rotation without k = k % len(word)
CycleUnreduced(word, k) ==
    IF word = <<>> THEN word
    ELSE PySlice(word, 0 - k, Len(word)) \o PySlice(word, 0, 0 - k)

cycle(word, k) ==
    IF word = <<>> THEN word
    ELSE LET kk == k % Len(word)
         IN  PySlice(word, -kk, Len(word)) \o PySlice(word, 0, -kk)

TRANSFORMATIONS == {"mirror", "pairwise_rotate", "interleave", "symmetry_stabilize", "cycle"}

\* TRANSFORMATIONS[name](word); cycle is registered with its default k = 1
ApplyTransformation(name, word) ==
    CASE name = "mirror" -> mirror(word)
      [] name = "pairwise_rotate" -> pairwise_rotate(word)
      [] name = "interleave" -> interleave(word)
      [] name = "symmetry_stabilize" -> symmetry_stabilize(word)
      [] name = "cycle" -> cycle(word, 1)

\* get_transformation raises KeyError for a name that is not registered
IsRegistered(name) == name \in TRANSFORMATIONS

RECURSIVE compose_sequence(_, _)
compose_sequence(word, strategies) ==
    IF strategies = <<>> THEN word
    ELSE compose_sequence(ApplyTransformation(Head(strategies), word), Tail(strategies))

(***************************************************************************)
(* State.                                                                  *)
(*   W, cur       a caller's word and the word after the transformations   *)
(*                applied to it so far                                     *)
(*   chain, outs  the transformations applied to W one after the other,    *)
(*                and the word each returned                               *)
(*   hasLedger    engine.ledger is not None                                *)
(*   ledger       the lines of the file at engine.ledger.path              *)
(*   result       what the last call on the engine returned or raised      *)
(***************************************************************************)
VARIABLES W, cur, chain, outs, hasLedger, ledger, result

vars == <<W, cur, chain, outs, hasLedger, ledger, result>>

\* the characters words are drawn from: two idempotent letters (one lower
\* case), a biphasic one of negative energy, an involutive one, an
\* asymmetric one, and a digit
Alphabet == {"A", "a", "D", "N", "R", "1"}

RECURSIVE WordsOfLen(_)
WordsOfLen(n) ==
    IF n = 0 THEN {<<>>}
    ELSE {Append(w, c) : w \in WordsOfLen(n - 1), c \in Alphabet}

Words == UNION {WordsOfLen(n) : n \in 0..MaxLen}

\* the k a caller passes to cycle
Ks == (0 - MaxLen - 1)..(MaxLen + 1)

NoCall == [op |-> "none"]

EngineIdle == hasLedger = FALSE /\ ledger = <<>> /\ result = NoCall

(***************************************************************************)
(* The registry applied to a word, any number of times.                    *)
(***************************************************************************)
PermInit ==
    /\ W \in Words
    /\ cur = W
    /\ chain = <<>> /\ outs = <<>>
    /\ EngineIdle

ApplyRegistered(name) ==
    /\ IsRegistered(name)
    /\ cur' = ApplyTransformation(name, cur)
    /\ UNCHANGED <<W, chain, outs, hasLedger, ledger, result>>

ComposeRegistered(names) ==
    /\ \A i \in 1..Len(names) : IsRegistered(names[i])
    /\ cur' = compose_sequence(cur, names)
    /\ UNCHANGED <<W, chain, outs, hasLedger, ledger, result>>

PermNext ==
    \/ \E name \in TRANSFORMATIONS : ApplyRegistered(name)
    \/ \E a, b \in TRANSFORMATIONS : ComposeRegistered(<<a, b>>)

PermSpec == PermInit /\ [][PermNext]_vars

(***************************************************************************)
(* mirror, cycle(k) and symmetry_stabilize applied twice in a row.         *)
(***************************************************************************)
TripInit ==
    /\ W \in Words
    /\ cur = W
    /\ chain = <<>> /\ outs = <<>>
    /\ EngineIdle

Applied(op, out) ==
    /\ Len(chain) < 2
    /\ chain' = Append(chain, op)
    /\ outs' = Append(outs, out)
    /\ cur' = out
    /\ UNCHANGED <<W, hasLedger, ledger, result>>

TripMirror == Applied([k |-> 0, name |-> "mirror"], mirror(cur))

TripStabilize == Applied([k |-> 0, name |-> "symmetry_stabilize"], symmetry_stabilize(cur))

TripCycle(k) == Applied([k |-> k, name |-> "cycle"], cycle(cur, k))

TripNext ==
    \/ TripMirror
    \/ TripStabilize
    \/ \E k \in Ks : TripCycle(k)

TripSpec == TripInit /\ [][TripNext]_vars

(***************************************************************************)
(* Properties of the transformations.                                      *)
(***************************************************************************)
Count(word, c) == Cardinality({i \in 1..Len(word) : word[i] = c})

SameMultiset(u, v) == \A c \in Alphabet : Count(u, c) = Count(v, c)

\* C5: every registered transformation, and every composition of registered
\* transformations, returns a word of the same length with the same multiset
\* of characters.
C5_Permutation == Len(cur) = Len(W) /\ SameMultiset(cur, W)

\* a word that no single transformation produces from W: a composition did
C5_Witness ==
    /\ cur # W
    /\ \A name \in TRANSFORMATIONS : ApplyTransformation(name, W) # cur

\* C9: mirror twice gives the word back; cycle by k then by -k mod len(W)
\* gives the word back; cycle moves the character at index i to index
\* (i + k) mod len(W), and returns the empty word unchanged.
C9_RoundTrip ==
    /\ (Len(chain) = 2 /\ chain[1].name = "mirror" /\ chain[2].name = "mirror")
          => outs[2] = W
    /\ (Len(chain) = 2 /\ chain[1].name = "cycle" /\ chain[2].name = "cycle"
          /\ W # <<>> /\ chain[2].k = (0 - chain[1].k) % Len(W))
          => outs[2] = W
    /\ (Len(chain) >= 1 /\ chain[1].name = "cycle")
          => /\ Len(outs[1]) = Len(W)
             /\ \A i \in 1..Len(W) :
                    outs[1][((i - 1 + chain[1].k) % Len(W)) + 1] = W[i]

\* a rotation that changed the word, undone by the second one
C9_Witness ==
    /\ Len(chain) = 2 /\ chain[1].name = "cycle" /\ chain[2].name = "cycle"
    /\ Len(W) = 3 /\ chain[1].k = 4 /\ chain[2].k = 2
    /\ outs[1] # W /\ outs[2] = W

\* the rank of a character's class in the sort: unclassified last
ClassRank(c) == StrRank(IF get_symmetry_type(c) = "None" THEN "zz" ELSE get_symmetry_type(c))

\* C10: symmetry_stabilize applied to its own output changes nothing; its
\* output is ordered by class, unclassified characters last, and characters
\* of one class keep their original order.
C10_Idempotent ==
    /\ (Len(chain) = 2 /\ chain[1].name = "symmetry_stabilize"
          /\ chain[2].name = "symmetry_stabilize")
          => outs[2] = outs[1]
    /\ (Len(chain) >= 1 /\ chain[1].name = "symmetry_stabilize")
          => /\ Len(outs[1]) = Len(W)
             /\ \A i, j \in 1..Len(W) :
                    i < j => ClassRank(outs[1][i]) <= ClassRank(outs[1][j])
             /\ \A r \in 1..5 :
                    SelectSeq(outs[1], LAMBDA c : ClassRank(c) = r)
                      = SelectSeq(W, LAMBDA c : ClassRank(c) = r)

\* a word the first sort reordered, with two different characters of one class
C10_Witness ==
    /\ Len(chain) = 2 /\ chain[1].name = "symmetry_stabilize"
    /\ chain[2].name = "symmetry_stabilize"
    /\ outs[1] # W /\ outs[2] = outs[1]
    /\ \E i, j \in 1..Len(W) :
          i < j /\ W[i] # W[j] /\ ClassRank(W[i]) = ClassRank(W[j])

(***************************************************************************)
(* The engine.  src/gdk9/engine.py and src/gdk9/ledger.py.                 *)
(***************************************************************************)
\* ImplicationEngine.__init__: tolerance = 1e-6.  The double 1e-6 lies
\* between two multiples of 2^-58; this is the lower one, so that
\* x <= 1e-6 exactly when x <= tolerance for every x of the model.
tolerance == <<0, 68719, 1999575>>

\* np.sum(vectors, axis=0): row after row
RECURSIVE SumVectors(_, _, _)
SumVectors(word, i, acc) ==
    IF i > Len(word) THEN acc
    ELSE Let(VAdd(acc, vectorize(word[i])), LAMBDA a : SumVectors(word, i + 1, a))

VectorSum(word) ==
    IF word = <<>> THEN ZeroVector
    ELSE SumVectors(word, 2, vectorize(word[1]))

read(word) ==
    LET clean_word == word
    IN  [energy          |-> word_energy(clean_word),
         word            |-> clean_word,
         symmetry_counts |-> symmetry_counts(clean_word),
         classes         |-> classify_word(clean_word),
         vector_sum      |-> VectorSum(clean_word)]

\* the energies compared for equality
ValidateExact(before, after) == before.energy = after.energy

validate_conservation(before, after) ==
    FLeq(FAbs(FSub(before.energy, after.energy)), tolerance)

\* hashlib.sha256(payload).hexdigest(): one digest per payload
Sha256(payload) == <<"sha256", payload>>

\* the payload with the after-reading's word and energy first
BuildSignatureAfterFirst(before, after) ==
    Sha256(<<after.word, Fmt8(after.energy),
             before.word, Fmt8(before.energy),
             after.vector_sum>>)

\* the payload is the parts joined by "|"; no word of the model holds a "|"
build_signature(before, after) ==
    Sha256(<<before.word, Fmt8(before.energy),
             after.word, Fmt8(after.energy),
             after.vector_sum>>)

ConservationReport(reading_before, reading_after) ==
    [initial_energy     |-> reading_before.energy,
     transformed_energy |-> reading_after.energy,
     delta     |-> FSub(reading_after.energy, reading_before.energy),
     conserved |-> validate_conservation(reading_before, reading_after),
     signature |-> build_signature(reading_before, reading_after)]

\* transform: the TransformationResult, or the KeyError of get_transformation
transform(word, strategy) ==
    IF ~IsRegistered(strategy) THEN [raised |-> TRUE]
    ELSE Let(read(word), LAMBDA reading_before :
         Let(ApplyTransformation(strategy, word), LAMBDA transformed_word :
         Let(read(transformed_word), LAMBDA reading_after :
             [raised |-> FALSE,
              value  |-> [reading_before   |-> reading_before,
                          reading_after    |-> reading_after,
                          strategy         |-> strategy,
                          transformed_word |-> transformed_word,
                          conservation     |->
                              ConservationReport(reading_before, reading_after)]])))

\* what callers pass
StrategyNames == TRANSFORMATIONS \cup {"nonexistent"}

RECURSIVE ListsOfLen(_)
ListsOfLen(n) ==
    IF n = 0 THEN {<<>>}
    ELSE {Append(l, name) : l \in ListsOfLen(n - 1), name \in StrategyNames}

StrategyLists == UNION {ListsOfLen(n) : n \in 0..MaxSteps}

Timestamps == {1, 2}

\* the words read and transformed: letters of two classes and a digit
ReadAlphabet == {"A", "N", "1"}

ReadWords == {w \in Words : \A i \in 1..Len(w) : w[i] \in ReadAlphabet}

\* the words run through a sequence of strategies
CallAlphabet == {"A", "N"}

CallWords == {w \in Words : \A i \in 1..Len(w) : w[i] \in CallAlphabet}

\* final_signature: str | None
None == <<>>

new_entry(word, t) ==
    [word |-> word, created_at |-> t, steps |-> <<>>, final_signature |-> None]

\* the steps numbered from 1
LedgerStepOneBased(idx, name, step_result) ==
    [before       |-> step_result.reading_before,
     after        |-> step_result.reading_after,
     strategy     |-> name,
     conservation |-> step_result.conservation,
     index        |-> idx + 1]

LedgerStep(idx, name, step_result) ==
    [before       |-> step_result.reading_before,
     after        |-> step_result.reading_after,
     strategy     |-> name,
     conservation |-> step_result.conservation,
     index        |-> idx]

\* the next step given the word the step was given
AdvanceStale(step_result) == step_result.reading_before.word

\* current_word = step_result.transformed_word
Advance(step_result) == step_result.transformed_word

\* the loop of transform_sequence from the strategy at idx (0-based) on
RECURSIVE RunSteps(_, _, _, _)
RunSteps(strategies, idx, current_word, steps) ==
    IF idx >= Len(strategies) THEN [raised |-> FALSE, steps |-> steps]
    ELSE Let(transform(current_word, strategies[idx + 1]), LAMBDA r :
             IF r.raised THEN [raised |-> TRUE, steps |-> steps]
             ELSE Let(Append(steps, LedgerStep(idx, strategies[idx + 1], r.value)),
                      LAMBDA appended :
                          RunSteps(strategies, idx + 1, Advance(r.value), appended)))

\* the signature of the first step
FinalSignatureFirst(steps) ==
    IF steps # <<>> THEN steps[1].conservation.signature ELSE None

\* if entry.steps: entry.final_signature = entry.steps[-1].conservation.signature
FinalSignature(steps) ==
    IF steps # <<>> THEN steps[Len(steps)].conservation.signature ELSE None

ReadingJson(reading) ==
    [energy          |-> reading.energy,
     word            |-> reading.word,
     symmetry_counts |-> reading.symmetry_counts,
     classes         |-> reading.classes,
     vector_sum      |-> reading.vector_sum]

StepJson(step) ==
    [before       |-> ReadingJson(step.before),
     after        |-> ReadingJson(step.after),
     strategy     |-> step.strategy,
     conservation |-> step.conservation,
     index        |-> step.index]

RECURSIVE StepsJson(_, _, _)
StepsJson(steps, i, acc) ==
    IF i > Len(steps) THEN acc
    ELSE Let(Append(acc, StepJson(steps[i])), LAMBDA a : StepsJson(steps, i + 1, a))

\* LedgerEntry.to_json: one JSON object, on one line
to_json(entry) ==
    [word            |-> entry.word,
     created_at      |-> entry.created_at,
     steps           |-> StepsJson(entry.steps, 1, <<>>),
     final_signature |-> entry.final_signature]

\* the file opened with "w"
LedgerOverwrite(file, entry) == <<to_json(entry)>>

\* JsonLineLedger.append: open(path, "a"), write the line
LedgerAppend(file, entry) == Append(file, to_json(entry))

\* the entry persisted whenever the engine has a ledger, log or not
LedgerAfterRunUnlogged(file, configured, log, run, entry) ==
    IF run.raised THEN file
    ELSE IF configured THEN LedgerAppend(file, entry)
    ELSE file

\* the append in a finally clause: the steps that ran are persisted
LedgerAfterRunAlways(file, configured, log, run, entry) ==
    IF log /\ configured THEN LedgerAppend(file, entry) ELSE file

\* the file after transform_sequence: an exception leaves before the append
LedgerAfterRun(file, configured, log, run, entry) ==
    IF run.raised THEN file
    ELSE IF log /\ configured THEN LedgerAppend(file, entry)
    ELSE file

Read(word) ==
    /\ result' = [word |-> word, op |-> "read", reading |-> read(word), status |-> "ok"]
    /\ UNCHANGED <<W, cur, chain, outs, hasLedger, ledger>>

Transform(word, strategy) ==
    \E r \in {transform(word, strategy)} :
        /\ result' = IF r.raised
                     THEN [word |-> word, op |-> "transform", strategy |-> strategy,
                           status |-> "KeyError"]
                     ELSE [word |-> word, op |-> "transform", strategy |-> strategy,
                           value |-> r.value, status |-> "ok"]
        /\ UNCHANGED <<W, cur, chain, outs, hasLedger, ledger>>

\* the entry transform_sequence has built when its loop has ended without an exception
BuiltEntry(word, t, steps) ==
    [new_entry(word, t) EXCEPT !.steps = steps,
                               !.final_signature = FinalSignature(steps)]

\* t is what time.time() returns
TransformSequence(word, strategies, log, t) ==
    \E run \in {RunSteps(strategies, 0, word, <<>>)} :
    \E entry \in {BuiltEntry(word, t, run.steps)} :
    \E after \in {LedgerAfterRun(ledger, hasLedger, log, run, entry)} :
        /\ Len(after) <= MaxLines
        /\ ledger' = after
        /\ result' = IF run.raised
                     THEN [word |-> word, strategies |-> strategies,
                           op |-> "transform_sequence", log |-> log,
                           status |-> "KeyError"]
                     ELSE [word |-> word, strategies |-> strategies,
                           op |-> "transform_sequence", entry |-> entry, log |-> log,
                           status |-> "ok"]
        /\ UNCHANGED <<W, cur, chain, outs, hasLedger>>

PureIdle == W = <<>> /\ cur = <<>> /\ chain = <<>> /\ outs = <<>>

(***************************************************************************)
(* Calls on an engine without a ledger: ImplicationEngine().               *)
(***************************************************************************)
CallInit ==
    /\ PureIdle
    /\ hasLedger = FALSE
    /\ ledger = <<>>
    /\ result = NoCall

\* one call
CallNext ==
    /\ result = NoCall
    /\ \/ \E w \in ReadWords : Read(w)
       \/ \E w \in ReadWords, name \in StrategyNames : Transform(w, name)
       \/ \E w \in CallWords, ss \in StrategyLists, log \in BOOLEAN :
             TransformSequence(w, ss, log, 1)

CallSpec == CallInit /\ [][CallNext]_vars

(***************************************************************************)
(* Calls on an engine with or without a ledger, the file absent at first.  *)
(***************************************************************************)
LedgerWords == {<<"N", "A">>, <<"1", "D">>}

LedgerLists == {<<>>, <<"mirror", "cycle">>,
                <<"nonexistent">>, <<"mirror", "nonexistent">>}

LedgerNames == {"mirror", "nonexistent"}

Init ==
    /\ PureIdle
    /\ hasLedger \in BOOLEAN
    /\ ledger = <<>>
    /\ result = NoCall

Next ==
    \/ \E w \in LedgerWords : Read(w)
    \/ \E w \in LedgerWords, name \in LedgerNames : Transform(w, name)
    \/ \E w \in LedgerWords, ss \in LedgerLists, log \in BOOLEAN, t \in Timestamps :
          TransformSequence(w, ss, log, t)

Spec == Init /\ [][Next]_vars

(***************************************************************************)
(* Properties of the engine and the ledger.                                *)
(***************************************************************************)
SequenceDone == result.op = "transform_sequence" /\ result.status = "ok"

TransformDone == result.op = "transform" /\ result.status = "ok"

Unknown(strategies) == \E i \in 1..Len(strategies) : ~IsRegistered(strategies[i])

\* C1: in the entry transform_sequence returns there is one step per strategy;
\* the first step's before.word is the caller's word, every later step's
\* before.word is the step before's after.word, and each step's after.word is
\* its strategy applied to its before.word.
C1_StepChaining ==
    SequenceDone =>
        LET steps == result.entry.steps
        IN  /\ Len(steps) = Len(result.strategies)
            /\ steps # <<>> => steps[1].before.word = result.word
            /\ \A i \in 2..Len(steps) : steps[i].before.word = steps[i - 1].after.word
            /\ \A i \in 1..Len(steps) :
                   /\ steps[i].index = i - 1
                   /\ steps[i].strategy = result.strategies[i]
                   /\ steps[i].after.word
                        = ApplyTransformation(result.strategies[i], steps[i].before.word)

\* a second step given a word that is not the caller's, and changing it
C1_Witness ==
    /\ SequenceDone
    /\ Len(result.entry.steps) = 2
    /\ result.entry.steps[2].before.word # result.word
    /\ result.entry.steps[2].after.word # result.entry.steps[2].before.word

\* C2: every step of the engine leaves the lines already in the ledger file as
\* they are, and a transform_sequence call that returns with log = true on an
\* engine that has a ledger appends exactly one line, the entry it returns,
\* also when the strategy list is empty.
C2_AppendOnly ==
    [][/\ Len(ledger') >= Len(ledger)
       /\ SubSeq(ledger', 1, Len(ledger)) = ledger
       /\ (result'.op = "transform_sequence" /\ result'.status = "ok"
             /\ result'.log /\ hasLedger)
            => /\ Len(ledger') = Len(ledger) + 1
               /\ ledger'[Len(ledger')].word = result'.word
               /\ ledger'[Len(ledger')].created_at = result'.entry.created_at
               /\ Len(ledger'[Len(ledger')].steps) = Len(result'.strategies)
               /\ ledger'[Len(ledger')].final_signature = result'.entry.final_signature
      ]_vars

\* a logged call with no strategy, made when the file held a line with steps
C2_Witness ==
    /\ SequenceDone /\ result.log /\ hasLedger
    /\ result.strategies = <<>>
    /\ Len(ledger) = 2
    /\ ledger[1].steps # <<>>
    /\ ledger[2].steps = <<>> /\ ledger[2].final_signature = None

\* C3: a call of transform or transform_sequence that names a strategy that is
\* not registered ends with the KeyError of get_transformation and leaves the
\* ledger file as it was, also when registered strategies precede the unknown
\* one.
C3_UnknownStrategy ==
    [][/\ (result'.op = "transform" /\ ~IsRegistered(result'.strategy))
            => result'.status = "KeyError" /\ ledger' = ledger
       /\ (result'.op = "transform_sequence" /\ Unknown(result'.strategies))
            => result'.status = "KeyError" /\ ledger' = ledger
      ]_vars

\* a logged run on an engine with a ledger, its second strategy unknown
C3_Witness ==
    /\ result.op = "transform_sequence" /\ result.status = "KeyError"
    /\ result.log /\ hasLedger
    /\ Len(result.strategies) = 2
    /\ IsRegistered(result.strategies[1]) /\ ~IsRegistered(result.strategies[2])
    /\ Len(ledger) = 1

\* C4: the entry's final_signature is the signature of its last step when it
\* has a step, and is None exactly when the strategy list was empty.
C4_FinalSignature ==
    SequenceDone =>
        LET entry == result.entry
        IN  /\ entry.steps # <<>> =>
                   entry.final_signature
                     = entry.steps[Len(entry.steps)].conservation.signature
            /\ entry.final_signature = None <=> result.strategies = <<>>

\* two steps with different signatures, the entry carrying the second
C4_Witness ==
    /\ SequenceDone
    /\ Len(result.entry.steps) = 2
    /\ result.entry.steps[1].conservation.signature
         # result.entry.steps[2].conservation.signature
    /\ result.entry.final_signature = result.entry.steps[2].conservation.signature

Within(x, y) == FLeq(FAbs(FSub(x, y)), tolerance)

C7_ReadStrips ==
    result.op = "read" =>
        /\ result.reading.word = normalize_word(result.word)
        /\ Len(result.reading.classes) = Len(normalize_word(result.word))

\* C8 as the code has it: the signature is the digest of five parts, in this
\* order: before.word, before.energy to 8 decimals, after.word, after.energy
\* to 8 decimals, after.vector_sum.
C8_SignaturePayload ==
    TransformDone =>
        LET before == result.value.reading_before
            after  == result.value.reading_after
        IN  result.value.conservation.signature
              = Sha256(<<before.word, Fmt8(before.energy),
                         after.word, Fmt8(after.energy), after.vector_sum>>)

\* a transformation that changed the word, the energy with a fraction
C8_Witness ==
    /\ TransformDone
    /\ result.value.reading_before.word # result.value.reading_after.word
    /\ Fmt8(result.value.reading_before.energy)[3] # 0
    /\ Len(result.value.conservation.signature[2]) = 5

\* C8 as stated: the payload has six parts, the before-reading's vector sum
\* one of them.
C8_SixComponents ==
    TransformDone =>
        LET before  == result.value.reading_before
            after   == result.value.reading_after
            payload == result.value.conservation.signature[2]
        IN  /\ Len(payload) = 6
            /\ payload = <<before.word, Fmt8(before.energy), before.vector_sum,
                           after.word, Fmt8(after.energy), after.vector_sum>>

\* the strategy names of a ledger line, in order
LineStrategies(line) == [i \in 1..Len(line.steps) |-> line.steps[i].strategy]

\* C11: a transform_sequence call with log = false, or on an engine without a
\* ledger, leaves the ledger file as it was and raises nothing when every
\* strategy is registered; the entry a call returns, logged or not, has the
\* steps and the final signature of every line a logged run of the same word
\* and strategies has put in the file; read and transform leave the ledger
\* file as it was.
C11_PersistOnlyWhenLogged ==
    [][/\ (result'.op = "transform_sequence" /\ ~(result'.log /\ hasLedger))
            => /\ ledger' = ledger
               /\ ~Unknown(result'.strategies) => result'.status = "ok"
       /\ (result'.op = "transform_sequence" /\ result'.status = "ok")
            => \A n \in 1..Len(ledger) :
                   (/\ ledger[n].word = result'.word
                    /\ LineStrategies(ledger[n]) = result'.strategies)
                     => /\ ledger[n].steps = to_json(result'.entry).steps
                        /\ ledger[n].final_signature = result'.entry.final_signature
       /\ result'.op \in {"read", "transform"} => ledger' = ledger
      ]_vars

\* a run with steps and log = false, after a logged run of the same word and
\* strategies: the file holds that one line and the entries agree
C11_Witness ==
    /\ SequenceDone /\ ~result.log /\ hasLedger
    /\ result.entry.steps # <<>>
    /\ Len(ledger) = 1
    /\ ledger[1].word = result.word
    /\ LineStrategies(ledger[1]) = result.strategies
    /\ ledger[1].steps = to_json(result.entry).steps

\* the steps of an entry or of a ledger line, numbered from 0 in order
Numbered(steps) == \A i \in 1..Len(steps) : steps[i].index = i - 1

\* C12: the entry transform_sequence returns, and the line it persists, has
\* one step per requested strategy, step i with index i and the i-th strategy
\* name, and carries the caller's word; every line of the ledger file has its
\* steps numbered from 0 and the word its first step started from.
C12_OneStepPerStrategy ==
    /\ SequenceDone =>
          /\ Len(result.entry.steps) = Len(result.strategies)
          /\ Numbered(result.entry.steps)
          /\ \A i \in 1..Len(result.strategies) :
                 result.entry.steps[i].strategy = result.strategies[i]
          /\ result.entry.word = result.word
    /\ (SequenceDone /\ result.log /\ hasLedger) =>
          /\ ledger # <<>>
          /\ Len(ledger[Len(ledger)].steps) = Len(result.strategies)
          /\ \A i \in 1..Len(result.strategies) :
                 ledger[Len(ledger)].steps[i].strategy = result.strategies[i]
          /\ ledger[Len(ledger)].word = result.word
    /\ \A n \in 1..Len(ledger) :
          /\ Numbered(ledger[n].steps)
          /\ ledger[n].steps # <<>> => ledger[n].steps[1].before.word = ledger[n].word

\* a persisted run of two different strategies whose first step changed the word
C12_Witness ==
    /\ SequenceDone /\ result.log /\ hasLedger
    /\ Len(result.entry.steps) = 2
    /\ result.entry.steps[1].strategy # result.entry.steps[2].strategy
    /\ result.entry.steps[1].after.word # result.entry.word
    /\ ledger[Len(ledger)].steps[2].index = 1

====
